---- MODULE Spec2Model ----
(***************************************************************************)
(* core/serializers.py of ImageStore: LabelSerializer, AnnotationSerializer *)
(* and ImageSerializer over the tables Image, Annotation and Label.         *)
(*                                                                          *)
(* Text is a sequence of one-character strings.  An optional value is the   *)
(* empty sequence (absent) or a one-element sequence (present).  A table is *)
(* the sequence of its rows in insertion order.                             *)
(***************************************************************************)
EXTENDS Integers, Sequences, FiniteSets, TLC

VARIABLES images, annotations, labels, last, procs, rendered

vars == <<images, annotations, labels, last, procs, rendered>>

(* ------------------------------ bounds --------------------------------- *)
MaxImages == 2
MaxAnnotations == 2
MaxLabels == 2
MaxBatch == 2
MaxSurface == 3

(* ------------------------------- text ---------------------------------- *)
Range(s) == {s[i] : i \in 1..Len(s)}

Letters == {"a", "b", "g", "n", "p", "A", "B"}
Digits == {"0", "7"}
Whitespace == {" "}

\* \w of the regular expression: letters, digits and the underscore
IsWordChar(c) == c \in Letters \cup Digits \cup {"_"}

RECURSIVE LStrip(_)
LStrip(s) == IF s # <<>> /\ Head(s) \in Whitespace THEN LStrip(Tail(s)) ELSE s

RECURSIVE RStrip(_)
RStrip(s) ==
    IF s # <<>> /\ s[Len(s)] \in Whitespace THEN RStrip(SubSeq(s, 1, Len(s) - 1)) ELSE s

\* str.strip()
Strip(s) == RStrip(LStrip(s))

\* django.utils.text.get_valid_filename: strip, spaces to underscores, then
\* drop every character that is not '-', '.', or a word character
get_valid_filename(name) ==
    LET stripped == Strip(name)
        replaced == [i \in 1..Len(stripped) |->
                        IF stripped[i] = " " THEN "_" ELSE stripped[i]]
    IN  SelectSeq(replaced, LAMBDA c : c \in {"-", "."} \/ IsWordChar(c))

DigitValue(c) == IF c = "7" THEN 7 ELSE 0

RECURSIVE DecimalValue(_)
DecimalValue(s) ==
    IF s = <<>> THEN 0
    ELSE 10 * DecimalValue(SubSeq(s, 1, Len(s) - 1)) + DigitValue(s[Len(s)])

\* the regular expression \.0*\s*$ of IntegerField.re_decimal, removed from
\* the end of the text
RECURSIVE StripZeros(_)
StripZeros(s) ==
    IF s # <<>> /\ s[Len(s)] = "0" THEN StripZeros(SubSeq(s, 1, Len(s) - 1)) ELSE s

StripDecimal(s) ==
    LET t == StripZeros(RStrip(s))
    IN  IF t # <<>> /\ t[Len(t)] = "." THEN SubSeq(t, 1, Len(t) - 1) ELSE s

\* int(str): optional sign, then digits, single underscores between digits
IsIntLiteral(s) ==
    LET t == Strip(s)
        body == IF t # <<>> /\ Head(t) \in {"-", "+"} THEN Tail(t) ELSE t
    IN  /\ body # <<>>
        /\ \A i \in 1..Len(body) :
              \/ body[i] \in Digits
              \/ /\ body[i] = "_"
                 /\ 1 < i /\ i < Len(body)
                 /\ body[i - 1] \in Digits /\ body[i + 1] \in Digits

IntOf(s) ==
    LET t == Strip(s)
        neg == t # <<>> /\ Head(t) = "-"
        body == IF t # <<>> /\ Head(t) \in {"-", "+"} THEN Tail(t) ELSE t
        v == DecimalValue(SelectSeq(body, LAMBDA c : c \in Digits))
    IN  IF neg THEN 0 - v ELSE v

\* serializers.IntegerField.to_internal_value applied to a text: the parsed
\* integer (present) or a validation failure (absent)
IntegerFromText(s) ==
    LET t == StripDecimal(s) IN IF IsIntLiteral(t) THEN <<IntOf(t)>> ELSE <<>>

(* ------------------------------ storage -------------------------------- *)
\* the three tables as one value
DB == [images |-> images, annotations |-> annotations, labels |-> labels]

EmptyDB == [images |-> <<>>, annotations |-> <<>>, labels |-> <<>>]

WithinBounds(db) ==
    /\ Len(db.images) <= MaxImages
    /\ Len(db.annotations) <= MaxAnnotations
    /\ Len(db.labels) <= MaxLabels

\* the outcome of a call: whether it succeeded, its errors, the tables after
Ok(db) == [ok |-> TRUE, errors |-> {}, db |-> db]
Failed(errs, db) == [ok |-> FALSE, errors |-> errs, db |-> db]

\* a default identifier for a Label created without one: a value no row has
FreshId(lbls) ==
    <<"g", CHOOSE n \in 1..(Len(lbls) + 1) :
              /\ \A i \in 1..Len(lbls) : lbls[i].id # <<"g", n>>
              /\ \A m \in 1..(n - 1) : \E i \in 1..Len(lbls) : lbls[i].id = <<"g", m>> >>

\* Label.objects.create: id is the primary key of the Label table
LabelInsert(attrs, lbls) ==
    LET id == IF attrs.id = <<>> THEN FreshId(lbls) ELSE attrs.id[1]
        row == [id |-> id, annotation_id |-> attrs.annotation_id]
    IN  IF \E i \in 1..Len(lbls) : lbls[i].id = id
        THEN [ok |-> FALSE, labels |-> lbls]
        ELSE [ok |-> TRUE, labels |-> Append(lbls, row)]

\* Annotation.objects.create: the id is assigned by the table
AnnotationInsert(attrs, anns) ==
    Append(anns, [id |-> Len(anns) + 1, image_id |-> attrs.image_id])

\* variant: an Image table without the uniqueness of file
ImageInsertNotUnique(file, imgs) ==
    [ok |-> TRUE, images |-> Append(imgs, [file |-> get_valid_filename(file.name)]),
     name |-> get_valid_filename(file.name)]

\* Image.objects.create: the stored file identity is the valid file name, and
\* it is unique across Images
ImageInsert(file, imgs) ==
    LET stored == get_valid_filename(file.name)
    IN  IF \E i \in 1..Len(imgs) : imgs[i].file = stored
        THEN [ok |-> FALSE, images |-> imgs, name |-> stored]
        ELSE [ok |-> TRUE, images |-> Append(imgs, [file |-> stored]), name |-> stored]

\* variant: a body run outside any transaction keeps the writes of a failed call
AtomicNoRollback(before, res) == res

\* transaction.atomic: the writes of a body that raises are undone
Atomic(before, res) == IF res.ok THEN res ELSE [res EXCEPT !.db = before]

(* --------------------------- LabelSerializer --------------------------- *)
\* variant: validate_id without the lookup
validate_id_skipped(id_, lbls) == TRUE

\* LabelSerializer.validate_id: TRUE when it returns, FALSE when it raises
validate_id(id_, lbls) == ~ \E i \in 1..Len(lbls) : lbls[i].id = id_

\* field validation of one Label payload; validate_id runs only for a
\* supplied id (the field is not required)
LabelErrors(data, lbls) ==
    IF data.id # <<>> /\ ~ validate_id(data.id[1], lbls)
    THEN {"DuplicateIdentifier"}
    ELSE {}

\* LabelSerializer(many=True): every child is validated
LabelListErrors(batch, lbls) ==
    UNION {LabelErrors(batch[i], lbls) : i \in 1..Len(batch)}

\* ListSerializer.save: the children are created one after the other; the
\* first insert that fails raises, leaving the rows written before it
RECURSIVE SaveLabels(_, _)
SaveLabels(batch, lbls) ==
    IF batch = <<>> THEN [ok |-> TRUE, labels |-> lbls]
    ELSE LET r == LabelInsert(Head(batch), lbls)
         IN  IF r.ok THEN SaveLabels(Tail(batch), r.labels) ELSE r

\* LabelSerializer(data=...).is_valid() then save()
LabelSerializer_save(data, db) ==
    LET errs == LabelErrors(data, db.labels)
    IN  IF errs # {} THEN Failed(errs, db)
        ELSE LET r == LabelInsert(data, db.labels)
             IN  IF r.ok THEN Ok([db EXCEPT !.labels = r.labels])
                 ELSE Failed({"IntegrityError"}, db)

(* ------------------------- AnnotationSerializer ------------------------ *)
\* serializers.IntegerField.to_internal_value: an integer, or a text parsed
IntegerField(v) == IF v.type = "int" THEN <<v.val>> ELSE IntegerFromText(v.val)

\* field validation of an Annotation payload: image_id is an IntegerField,
\* labels a list of LabelSerializer
AnnotationErrors(data, lbls) ==
    (IF data.image_id # <<>> /\ IntegerField(data.image_id[1]) = <<>>
     THEN {"InvalidInteger"} ELSE {})
    \cup
    (IF data.labels # <<>> THEN LabelListErrors(data.labels[1], lbls) ELSE {})

\* the validated data of a valid Annotation payload
AnnotationValidated(data) ==
    [image_id |-> IF data.image_id = <<>> THEN <<>> ELSE IntegerField(data.image_id[1]),
     labels |-> data.labels]

\* the body of AnnotationSerializer.create
AnnotationCreateBody(validated_data, db) ==
    LET labels_data == validated_data.labels
        anns == AnnotationInsert(validated_data, db.annotations)
        annotation_id == anns[Len(anns)].id
        db1 == [db EXCEPT !.annotations = anns]
    IN  IF labels_data # <<>> /\ labels_data[1] # <<>>
        THEN LET batch == [i \in 1..Len(labels_data[1]) |->
                              [labels_data[1][i] EXCEPT !.annotation_id = <<annotation_id>>]]
                 errs == LabelListErrors(batch, db1.labels)
                 saved == SaveLabels(batch, db1.labels)
             IN  IF errs # {} THEN Failed(errs, db1)
                 ELSE IF saved.ok THEN Ok([db1 EXCEPT !.labels = saved.labels])
                 ELSE Failed({"IntegrityError"}, [db1 EXCEPT !.labels = saved.labels])
        ELSE Ok(db1)

\* AnnotationSerializer.create under @transaction.atomic
AnnotationSerializer_create(validated_data, db) ==
    Atomic(db, AnnotationCreateBody(validated_data, db))

\* AnnotationSerializer(data=...).is_valid() then save()
AnnotationSerializer_save(data, db) ==
    LET errs == AnnotationErrors(data, db.labels)
    IN  IF errs # {} THEN Failed(errs, db)
        ELSE AnnotationSerializer_create(AnnotationValidated(data), db)

(* --------------------------- ImageSerializer --------------------------- *)
SUPPORTED_FORMATS == {"JPEG", "PNG", "TIFF"}

FILE_MAX_SIZE == 20 * 1024 * 1024

\* ImageSerializer.to_internal_value: every present, non-empty field is
\* unpacked from its multipart list to the first element
Unpack(val) == IF val # <<>> THEN val[1] ELSE val

\* variant: the lookup uses the name as uploaded
validate_file_raw_name(file, imgs) ==
    IF \E i \in 1..Len(imgs) : imgs[i].file = file.name THEN {"DuplicateFile"}
    ELSE IF file.format \notin SUPPORTED_FORMATS THEN {"UnsupportedFormat"}
    ELSE IF file.size > FILE_MAX_SIZE THEN {"FileTooLarge"}
    ELSE {}

\* variant: no check of the format
validate_file_any_format(file, imgs) ==
    IF \E i \in 1..Len(imgs) : imgs[i].file = get_valid_filename(file.name)
    THEN {"DuplicateFile"}
    ELSE IF file.size > FILE_MAX_SIZE THEN {"FileTooLarge"}
    ELSE {}

\* variant: the size limit is exclusive
validate_file_exclusive(file, imgs) ==
    IF \E i \in 1..Len(imgs) : imgs[i].file = get_valid_filename(file.name)
    THEN {"DuplicateFile"}
    ELSE IF file.format \notin SUPPORTED_FORMATS THEN {"UnsupportedFormat"}
    ELSE IF file.size >= FILE_MAX_SIZE THEN {"FileTooLarge"}
    ELSE {}

\* ImageSerializer.validate_file: the error it raises, or none
validate_file(file, imgs) ==
    IF \E i \in 1..Len(imgs) : imgs[i].file = get_valid_filename(file.name)
    THEN {"DuplicateFile"}
    ELSE IF file.format \notin SUPPORTED_FORMATS THEN {"UnsupportedFormat"}
    ELSE IF file.size > FILE_MAX_SIZE THEN {"FileTooLarge"}
    ELSE {}

\* field validation of an Image payload: the file, and the nested annotation
\* when one is given
ImageErrors(data, db) ==
    validate_file(data.file, db.images)
    \cup
    (IF data.annotation # <<>> THEN AnnotationErrors(data.annotation[1], db.labels) ELSE {})

\* the validated data of a valid Image payload
ImageValidated(data) ==
    [file |-> data.file,
     annotation |-> IF data.annotation = <<>> THEN <<>>
                    ELSE <<AnnotationValidated(data.annotation[1])>>]

\* truth value of a validated annotation dictionary: it has a key
Truthy(annotation_data) ==
    /\ annotation_data # <<>>
    /\ \/ annotation_data[1].image_id # <<>>
       \/ annotation_data[1].labels # <<>>

\* the body of ImageSerializer.create
ImageCreateBody(validated_data, db) ==
    LET annotation_data == validated_data.annotation
        image == ImageInsert(validated_data.file, db.images)
        db1 == [db EXCEPT !.images = image.images]
        data == [image_id |-> << [type |-> "str", val |-> image.name] >>,
                 labels |-> annotation_data[1].labels]
        errs == AnnotationErrors(data, db1.labels)
    IN  IF ~ image.ok THEN Failed({"IntegrityError"}, db1)
        ELSE IF Truthy(annotation_data)
        THEN IF errs # {} THEN Failed(errs, db1)
             ELSE AnnotationSerializer_create(AnnotationValidated(data), db1)
        ELSE Ok(db1)

\* ImageSerializer.create under @transaction.atomic
ImageSerializer_create(validated_data, db) ==
    Atomic(db, ImageCreateBody(validated_data, db))

\* variant: the annotation is not declared as a nested field, so only the
\* file is validated, and create runs outside any transaction
ImageSerializer_save_unchecked(req, db) ==
    LET data == [file |-> Unpack(req.file),
                 annotation |-> IF req.annotation = <<>> THEN <<>>
                                ELSE <<Unpack(req.annotation)>>]
        errs == validate_file(data.file, db.images)
    IN  IF errs # {} THEN Failed(errs, db)
        ELSE AtomicNoRollback(db, ImageCreateBody(ImageValidated(data), db))

\* ImageSerializer(data=...).is_valid() then save()
ImageSerializer_save(req, db) ==
    LET data == [file |-> Unpack(req.file),
                 annotation |-> IF req.annotation = <<>> THEN <<>>
                                ELSE <<Unpack(req.annotation)>>]
        errs == ImageErrors(data, db)
    IN  IF errs # {} THEN Failed(errs, db)
        ELSE ImageSerializer_create(ImageValidated(data), db)

(* ------------------------------ requests ------------------------------- *)
Ext == <<".", "p", "n", "g">>

FileNames == {<<" ", "a", " ", "b">> \o Ext, <<"a", "_", "b">> \o Ext, <<"a", "!">> \o Ext}

Formats == SUPPORTED_FORMATS \cup {"GIF"}

Sizes == {1, FILE_MAX_SIZE, FILE_MAX_SIZE + 1}

Absent == <<>>

ClientIds == {<<"u", 1>>, <<"u", 2>>}

Opt(S) == {Absent} \cup {<<x>> : x \in S}

LabelPayloads == [id : Opt(ClientIds), annotation_id : {Absent}]

Batches == UNION {[1..n -> LabelPayloads] : n \in 0..MaxBatch}

IntValue(n) == [type |-> "int", val |-> n]
TextValue(s) == [type |-> "str", val |-> s]

AnnotationPayloads ==
    [image_id : {<<IntValue(7)>>, <<TextValue(<<"7", ".", "0">>)>>}, labels : Opt(Batches)]

NestedAnnotationPayloads == [image_id : Opt({IntValue(7)}), labels : Opt(Batches)]

Files == [name : FileNames, format : Formats, size : Sizes]

\* multipart requests: every value arrives wrapped in a list
ImageRequests ==
    [file : {<<f>> : f \in Files}, annotation : {Absent}]
    \cup
    [file : {<<f>> : f \in {g \in Files : g.format \in {"PNG", "GIF"} /\ g.size = FILE_MAX_SIZE}},
     annotation : {<<a>> : a \in NestedAnnotationPayloads}]

(* ------------------------------- actions ------------------------------- *)
Idle == [op |-> "idle"]

Outcome(op, req, r) ==
    [op |-> op, req |-> req, ok |-> r.ok, errors |-> r.errors, before |-> DB]

Commit(op, req, r) ==
    /\ WithinBounds(r.db)
    /\ images' = r.db.images
    /\ annotations' = r.db.annotations
    /\ labels' = r.db.labels
    /\ last' = Outcome(op, req, r)
    /\ UNCHANGED <<procs, rendered>>

\* POST of an Image
ImageCreate ==
    /\ last = Idle
    /\ \E req \in ImageRequests : Commit("ImageCreate", req, ImageSerializer_save(req, DB))

\* POST of an Annotation
AnnotationCreate ==
    /\ last = Idle
    /\ \E req \in AnnotationPayloads :
          Commit("AnnotationCreate", req, AnnotationSerializer_save(req, DB))

\* POST of a Label
LabelCreate ==
    /\ last = Idle
    /\ \E req \in LabelPayloads : Commit("LabelCreate", req, LabelSerializer_save(req, DB))

\* the response is returned; the next request is served
Respond ==
    /\ last # Idle
    /\ last' = Idle
    /\ UNCHANGED <<images, annotations, labels, procs, rendered>>

Init ==
    /\ images = <<>>
    /\ annotations = <<>>
    /\ labels = <<>>
    /\ last = Idle
    /\ procs = <<>>
    /\ rendered = <<>>

Next == ImageCreate \/ AnnotationCreate \/ LabelCreate \/ Respond

Spec == Init /\ [][Next]_vars

(* ------------------------- properties of Spec -------------------------- *)
Called(op) == last # Idle /\ last.op = op

Stored(id, lbls) == \E i \in 1..Len(lbls) : lbls[i].id = id

\* the label payloads of an Annotation payload
LabelsOf(ann) == IF ann.labels = <<>> THEN <<>> ELSE ann.labels[1]

\* the label payloads nested in an Image request
NestedLabels(req) == IF req.annotation = <<>> THEN <<>> ELSE LabelsOf(req.annotation[1])

HasStoredId(batch, lbls) ==
    \E i \in 1..Len(batch) : batch[i].id # <<>> /\ Stored(batch[i].id[1], lbls)

HasRepeatedId(batch) ==
    \E i, j \in 1..Len(batch) : i # j /\ batch[i].id # <<>> /\ batch[i].id = batch[j].id

DuplicateName(req, imgs) ==
    \E i \in 1..Len(imgs) : imgs[i].file = get_valid_filename(req.file[1].name)

FileErrorKinds == {"DuplicateFile", "UnsupportedFormat", "FileTooLarge"}

\* C1: an Image create whose nested annotation has a label with an id that is
\* already stored fails and leaves the three tables exactly as they were
C1_NestedDuplicateRollsBack ==
    (Called("ImageCreate") /\ HasStoredId(NestedLabels(last.req), last.before.labels))
        => (~ last.ok /\ DB = last.before)

C1_Witness ==
    /\ Called("ImageCreate")
    /\ Len(NestedLabels(last.req)) = 2
    /\ HasStoredId(NestedLabels(last.req), last.before.labels)
    /\ \E i \in 1..2 : LabelErrors(NestedLabels(last.req)[i], last.before.labels) = {}
    /\ last.errors = {"DuplicateIdentifier"}
    /\ ~ last.ok

\* C2: an Annotation create with N label payloads either stores the
\* Annotation and all N Labels, each owned by it, or stores nothing
C2_AnnotationAllOrNothing ==
    Called("AnnotationCreate") =>
        LET batch == LabelsOf(last.req)
            n == Len(last.before.labels)
        IN  IF last.ok
            THEN /\ images = last.before.images
                 /\ Len(annotations) = Len(last.before.annotations) + 1
                 /\ SubSeq(annotations, 1, Len(annotations) - 1) = last.before.annotations
                 /\ Len(labels) = n + Len(batch)
                 /\ SubSeq(labels, 1, n) = last.before.labels
                 /\ \A i \in 1..Len(batch) :
                       /\ labels[n + i].annotation_id = <<annotations[Len(annotations)].id>>
                       /\ batch[i].id # <<>> => labels[n + i].id = batch[i].id[1]
            ELSE DB = last.before

C2_Witness ==
    /\ Called("AnnotationCreate")
    /\ last.ok
    /\ Len(LabelsOf(last.req)) = 2
    /\ Len(labels) = Len(last.before.labels) + 2

\* C3: an Image create with a valid file and a valid annotation payload
\* succeeds and stores the Image, one Annotation for it and its Labels
C3_NestedCreateSucceeds ==
    (/\ Called("ImageCreate")
     /\ validate_file(last.req.file[1], last.before.images) = {}
     /\ last.req.annotation # <<>>
     /\ NestedLabels(last.req) # <<>>
     /\ ~ HasStoredId(NestedLabels(last.req), last.before.labels)
     /\ ~ HasRepeatedId(NestedLabels(last.req)))
        => /\ last.ok
           /\ images = Append(last.before.images,
                              [file |-> get_valid_filename(last.req.file[1].name)])
           /\ Len(annotations) = Len(last.before.annotations) + 1
           /\ annotations[Len(annotations)].image_id =
                 IntegerField(TextValue(images[Len(images)].file))
           /\ Len(labels) = Len(last.before.labels) + Len(NestedLabels(last.req))
           /\ \A i \in (Len(last.before.labels) + 1)..Len(labels) :
                 labels[i].annotation_id = <<annotations[Len(annotations)].id>>

\* C4: an Image create whose valid file name is that of a stored Image fails
\* with the duplicate-file error and changes nothing
C4_DuplicateFileRejected ==
    (Called("ImageCreate") /\ DuplicateName(last.req, last.before.images))
        => (~ last.ok /\ "DuplicateFile" \in last.errors /\ DB = last.before)

C4_Witness ==
    /\ Called("ImageCreate")
    /\ DuplicateName(last.req, last.before.images)
    /\ \A i \in 1..Len(images) : images[i].file # last.req.file[1].name
    /\ "DuplicateFile" \in last.errors
    /\ Len(images) = 1

\* C5: a Label payload with a stored id fails with the duplicate-identifier
\* error and no row is written; one with no id or a new id passes the check
C5_DuplicateIdRejected ==
    Called("LabelCreate") =>
        IF last.req.id # <<>> /\ Stored(last.req.id[1], last.before.labels)
        THEN ~ last.ok /\ "DuplicateIdentifier" \in last.errors /\ DB = last.before
        ELSE last.ok /\ Len(labels) = Len(last.before.labels) + 1

C5_Witness ==
    /\ Called("LabelCreate")
    /\ last.req.id # <<>>
    /\ Stored(last.req.id[1], last.before.labels)
    /\ last.errors = {"DuplicateIdentifier"}
    /\ labels = last.before.labels

\* C6: with a new name and a supported format, a file of exactly
\* FILE_MAX_SIZE bytes passes file validation and one of FILE_MAX_SIZE + 1
\* bytes fails with the file-too-large error
C6_SizeLimitInclusive ==
    (/\ Called("ImageCreate")
     /\ ~ DuplicateName(last.req, last.before.images)
     /\ last.req.file[1].format \in SUPPORTED_FORMATS)
        => /\ last.req.file[1].size = 20 * 1024 * 1024
                 => last.errors \cap FileErrorKinds = {}
           /\ last.req.file[1].size = 20 * 1024 * 1024 + 1
                 => (~ last.ok /\ "FileTooLarge" \in last.errors /\ DB = last.before)

C6_Witness ==
    /\ Called("ImageCreate")
    /\ last.req.file[1].size = 20 * 1024 * 1024
    /\ last.ok
    /\ Len(images) = Len(last.before.images) + 1

\* C7 as stated: an upload with an unsupported format fails with the
\* unsupported-format error and writes nothing
C7_UnsupportedFormatError ==
    (Called("ImageCreate") /\ last.req.file[1].format \notin {"JPEG", "PNG", "TIFF"})
        => (~ last.ok /\ "UnsupportedFormat" \in last.errors /\ DB = last.before)

\* C7 amended: an upload with an unsupported format fails and writes nothing;
\* the error is the unsupported-format error when the valid file name is new
\* and the duplicate-file error when it is that of a stored Image
C7_UnsupportedFormatRejected ==
    (Called("ImageCreate") /\ last.req.file[1].format \notin {"JPEG", "PNG", "TIFF"})
        => /\ ~ last.ok
           /\ DB = last.before
           /\ last.errors \cap FileErrorKinds =
                 IF DuplicateName(last.req, last.before.images)
                 THEN {"DuplicateFile"} ELSE {"UnsupportedFormat"}

C7_Witness ==
    /\ Called("ImageCreate")
    /\ last.req.file[1].format = "GIF"
    /\ ~ DuplicateName(last.req, last.before.images)
    /\ last.errors = {"UnsupportedFormat"}
    /\ ~ last.ok

\* C10: no two stored Labels share an id, and an Annotation create whose
\* batch repeats an id that is not stored leaves nothing of the call stored
C10_LabelIdsUnique ==
    /\ \A i, j \in 1..Len(labels) : labels[i].id = labels[j].id => i = j
    /\ (/\ Called("AnnotationCreate")
        /\ HasRepeatedId(LabelsOf(last.req))
        /\ ~ HasStoredId(LabelsOf(last.req), last.before.labels))
          => (~ last.ok /\ DB = last.before)

C10_Witness ==
    /\ Called("AnnotationCreate")
    /\ HasRepeatedId(LabelsOf(last.req))
    /\ ~ HasStoredId(LabelsOf(last.req), last.before.labels)
    /\ last.errors = {"IntegrityError"}
    /\ Len(labels) > 0

(* ------------------------ rendering of a Label ------------------------- *)
EXPORT_FORMAT_KEY == <<"e", "x", "p", "o", "r", "t">>

Meta_fields == <<"annotation_id", "id", "class_id", "surface", "shape", "meta">>

Meta_export_fields == <<"id", "class_id", "surface">>

\* annotation_id is declared write_only
WriteOnly == {"annotation_id"}

Uppercase == <<"E", "X", "P", "O", "R", "T", "S", "J", "N">>
Lowercase == <<"e", "x", "p", "o", "r", "t", "s", "j", "n">>

\* str.lower()
Lower(s) ==
    [i \in 1..Len(s) |->
        IF \E k \in 1..Len(Uppercase) : Uppercase[k] = s[i]
        THEN Lowercase[CHOOSE k \in 1..Len(Uppercase) : Uppercase[k] = s[i]]
        ELSE s[i]]

\* ''.join(parts)
RECURSIVE Join(_)
Join(parts) == IF parts = <<>> THEN <<>> ELSE Head(parts) \o Join(Tail(parts))

\* query_params.get('format', '')
FormatParam(query_params) == IF query_params = <<>> THEN <<>> ELSE query_params[1]

\* variant: the parameter is compared as given
ExportSelectedCaseSensitive(format_param) == format_param = EXPORT_FORMAT_KEY

\* the test of LabelSerializer.to_representation for the export form
ExportSelected(format_param) == Lower(format_param) = EXPORT_FORMAT_KEY

\* ModelSerializer.to_representation: the readable fields, in declared order
FullRepresentation(instance) ==
    LET keys == SelectSeq(Meta_fields, LAMBDA k : k \notin WriteOnly)
    IN  [i \in 1..Len(keys) |-> [key |-> keys[i], value |-> instance[keys[i]]]]

\* LabelSerializer.to_representation: an ordered dictionary as a sequence
\* of key/value entries
to_representation(instance, query_params) ==
    LET result == FullRepresentation(instance)
        kept == SelectSeq(result, LAMBDA e : e.key \in Range(Meta_export_fields))
    IN  IF ExportSelected(FormatParam(query_params))
        THEN [i \in 1..Len(kept) |->
                IF kept[i].key = "surface"
                THEN [key |-> "surface", value |-> Join(kept[i].value)]
                ELSE kept[i]]
        ELSE result

SurfaceElements == {<<"A">>, <<"B">>, <<"C">>}

Surfaces == UNION {[1..n -> SurfaceElements] : n \in 0..MaxSurface}

LabelInstances ==
    [id : ClientIds, annotation_id : {<<1>>}, class_id : {<<"c">>},
     surface : Surfaces, shape : {<<"b", "o", "x">>}, meta : {<<>>}]

FormatValues ==
    {<<"e", "x", "p", "o", "r", "t">>, <<"E", "X", "P", "O", "R", "T">>,
     <<"E", "x", "p", "o", "r", "t">>, <<"e", "X", "p", "O", "r", "T">>,
     <<"e", "x", "p", "o", "r", "t", "s">>, <<"e", "x", "p", "o", "r">>,
     <<"j", "s", "o", "n">>, <<>>}

\* GET of a Label with the query parameters of the request
Render ==
    /\ rendered # <<>>
    /\ rendered.result = Absent
    /\ rendered' = [rendered EXCEPT
                       !.result = <<to_representation(rendered.instance, rendered.query)>>]
    /\ UNCHANGED <<images, annotations, labels, last, procs>>

InitRender ==
    /\ images = <<>>
    /\ annotations = <<>>
    /\ labels = <<>>
    /\ last = Idle
    /\ procs = <<>>
    /\ rendered \in [instance : LabelInstances, query : Opt(FormatValues), result : {Absent}]

NextRender == Render

SpecRender == InitRender /\ [][NextRender]_vars

Keys(result) == [i \in 1..Len(result) |-> result[i].key]

ValueOf(result, key) == result[CHOOSE i \in 1..Len(result) : result[i].key = key].value

\* "export" in any letter case
IsExportWord(t) ==
    /\ Len(t) = 6
    /\ t[1] \in {"e", "E"} /\ t[2] \in {"x", "X"} /\ t[3] \in {"p", "P"}
    /\ t[4] \in {"o", "O"} /\ t[5] \in {"r", "R"} /\ t[6] \in {"t", "T"}

\* C8: with format equal to "export" in any letter case a Label renders as
\* id, class_id and surface, the surface elements concatenated in order;
\* otherwise it renders every readable field and the surface as stored
C8_RenderByFormat ==
    (rendered # <<>> /\ rendered.result # Absent) =>
        LET r == rendered.result[1]
            inst == rendered.instance
        IN  IF rendered.query # Absent /\ IsExportWord(rendered.query[1])
            THEN /\ Keys(r) = <<"id", "class_id", "surface">>
                 /\ ValueOf(r, "id") = inst.id
                 /\ ValueOf(r, "class_id") = inst.class_id
                 /\ LET flat == ValueOf(r, "surface")
                    IN  /\ Len(flat) = Len(inst.surface)
                        /\ \A i \in 1..Len(flat) : <<flat[i]>> = inst.surface[i]
            ELSE /\ Keys(r) = <<"id", "class_id", "surface", "shape", "meta">>
                 /\ \A k \in Range(Keys(r)) : ValueOf(r, k) = inst[k]

C8_Witness ==
    /\ rendered # <<>>
    /\ rendered.result # Absent
    /\ rendered.query = << <<"E", "X", "P", "O", "R", "T">> >>
    /\ rendered.instance.surface = << <<"A">>, <<"B">>, <<"C">> >>
    /\ ValueOf(rendered.result[1], "surface") = <<"A", "B", "C">>

(* ---------------------- concurrent Image creates ----------------------- *)
Procs == {"p1", "p2"}

ConcurrentRequests ==
    [file : {<<f>> : f \in {g \in Files : g.format \in {"PNG", "GIF"} /\ g.size = FILE_MAX_SIZE}},
     annotation : {Absent, << [image_id |-> Absent, labels |-> << <<>> >>] >>}]

RequestData(req) ==
    [file |-> Unpack(req.file),
     annotation |-> IF req.annotation = <<>> THEN <<>> ELSE <<Unpack(req.annotation)>>]

Waiting == [pc |-> "idle"]

\* is_valid of one request: validation reads the committed rows, before the
\* transaction of create is opened
Validate(p) ==
    /\ procs[p].pc = "idle"
    /\ \E req \in ConcurrentRequests :
          LET errs == ImageErrors(RequestData(req), DB)
          IN  procs' = [procs EXCEPT ![p] =
                  IF errs # {}
                  THEN [pc |-> "done", req |-> req, ok |-> FALSE, errors |-> errs]
                  ELSE [pc |-> "create", req |-> req, ok |-> FALSE, errors |-> {}]]
    /\ UNCHANGED <<images, annotations, labels, last, rendered>>

\* the insert of the Image row inside the transaction: it fails on a
\* committed row with the same file, and waits while another transaction
\* holds an uncommitted row with the same file
Insert(p) ==
    /\ procs[p].pc = "create"
    /\ LET image == ImageInsert(RequestData(procs[p].req).file, images)
       IN  /\ \A q \in Procs \ {p} :
                 procs[q].pc = "inserted" =>
                    get_valid_filename(RequestData(procs[q].req).file.name) # image.name
           /\ procs' = [procs EXCEPT ![p] =
                  IF image.ok
                  THEN [@ EXCEPT !.pc = "inserted"]
                  ELSE [@ EXCEPT !.pc = "done", !.errors = {"IntegrityError"}]]
    /\ UNCHANGED <<images, annotations, labels, last, rendered>>

\* the rest of ImageSerializer.create: the transaction commits its rows, or
\* rolls back when the annotation stage raises
Finish(p) ==
    /\ procs[p].pc = "inserted"
    /\ LET r == ImageSerializer_create(ImageValidated(RequestData(procs[p].req)), DB)
       IN  /\ WithinBounds(r.db)
           /\ images' = r.db.images
           /\ annotations' = r.db.annotations
           /\ labels' = r.db.labels
           /\ procs' = [procs EXCEPT ![p] =
                           [@ EXCEPT !.pc = "done", !.ok = r.ok, !.errors = r.errors]]
    /\ UNCHANGED <<last, rendered>>

\* the response is returned; the worker takes the next request
Return(p) ==
    /\ procs[p].pc = "done"
    /\ procs' = [procs EXCEPT ![p] = Waiting]
    /\ UNCHANGED <<images, annotations, labels, last, rendered>>

InitConcurrent ==
    /\ images = <<>>
    /\ annotations = <<>>
    /\ labels = <<>>
    /\ last = Idle
    /\ procs = [p \in Procs |-> Waiting]
    /\ rendered = <<>>

NextConcurrent == \E p \in Procs : Validate(p) \/ Insert(p) \/ Finish(p) \/ Return(p)

SpecConcurrent == InitConcurrent /\ [][NextConcurrent]_vars

NameOf(p) == get_valid_filename(RequestData(procs[p].req).file.name)

\* the request of p would succeed were it the only one, on empty tables
AloneValid(p) == ImageSerializer_save(procs[p].req, EmptyDB).ok

\* C9: of two concurrent Image creates with the same valid file name at most
\* one commits, the other fails (a request valid on its own fails with the
\* duplicate-file error or on the uniqueness constraint), and no two stored
\* Images have the same file
C9_OneWinner ==
    /\ \A i, j \in 1..Len(images) : images[i].file = images[j].file => i = j
    /\ procs # <<>> =>
          \A p, q \in Procs :
             (/\ p # q
              /\ procs[p].pc = "done" /\ procs[q].pc = "done"
              /\ NameOf(p) = NameOf(q)
              /\ procs[p].ok)
                => /\ ~ procs[q].ok
                   /\ AloneValid(q) =>
                         procs[q].errors \cap {"DuplicateFile", "IntegrityError"} # {}

C9_Witness ==
    /\ procs # <<>>
    /\ procs["p1"].pc = "done" /\ procs["p2"].pc = "done"
    /\ NameOf("p1") = NameOf("p2")
    /\ procs["p1"].ok
    /\ procs["p2"].errors = {"IntegrityError"}
    /\ Len(images) = 1

====
